---- MODULE Spec2Model ----
(***************************************************************************)
(* Model of mtriage-server (src/app.py): the Local batch discovery, the   *)
(* snapshot store (save_map / load_map), the query router and the          *)
(* element operations of LocalBatch and S3Batch.                           *)
(*                                                                         *)
(* Strings are sequences of tokens: "/" is the path separator, every other *)
(* token is a maximal run of non-separator characters ("foo/" is           *)
(* <<"foo", "/">>).  A pathlib.Path is the sequence of its parts relative  *)
(* to ROOT.  An optional value (None or a value) is a sequence of length   *)
(* at most one.                                                            *)
(***************************************************************************)
EXTENDS Integers, Sequences, FiniteSets, TLC

VARIABLES
    fs,        \* directories under ROOT: a prefix-closed set of part sequences
    markers,   \* d |-> etype for every ROOT/d/.mtbatch marker file
    file,      \* the snapshot file EM_STORE
    pc,        \* position of the starting process in __main__
    mp,        \* the module-level `mp` of the starting process
    serving,   \* TRUE once some process has reached app.run
    req,       \* the request being handled
    resp,      \* its outcome, until it is returned
    batches,   \* a batch list handed to the router and element operations
    call       \* the last direct application of such an operation

vars == <<fs, markers, file, pc, mp, serving, req, resp, batches, call>>

lifeVars == <<fs, markers, file, pc, mp, serving, req, resp>>
fnVars == <<batches, call>>

-----------------------------------------------------------------------------
(* Bounds *)

MaxDirs == 3

MaxEls == 3

MaxPage == 2

MaxLimit == 3

MaxQueryLen == 3

-----------------------------------------------------------------------------
(* Strings, paths and optional values *)

SEP == "/"

Names == {"a", "b"}

\* the tokens of the keys and paths considered, in the order of their first
\* characters ('.' < '/' < '_' < 'a' < ...); no token is a prefix of another,
\* so comparing token by token is comparing the strings
TokenSeq == <<".mtbatch", "/", "__RANKING", "a", "b", "c", "d", "e",
              "rankings.json", "x.json">>

NameOrd == [n \in {TokenSeq[i] : i \in 1..Len(TokenSeq)} |->
               CHOOSE i \in 1..Len(TokenSeq) : TokenSeq[i] = n]

\* the names of the element folders put into a bucket
ElNames == {TokenSeq[i] : i \in 4..(3 + MaxEls)}

ETypes == {"image"}

None == <<>>

Some(x) == <<x>>

IsNone(o) == Len(o) = 0

RECURSIVE lstrip(_)
lstrip(s) == IF Len(s) > 0 /\ s[1] = SEP THEN lstrip(Tail(s)) ELSE s

RECURSIVE rstrip(_)
rstrip(s) ==
    IF Len(s) > 0 /\ s[Len(s)] = SEP THEN rstrip(SubSeq(s, 1, Len(s) - 1)) ELSE s

\* str.strip("/")
strip(s) == rstrip(lstrip(s))

\* Path(s).name for a str s: the last part, "" when there is none
PathName(s) ==
    LET t == rstrip(s)
    IN  IF Len(t) = 0 THEN <<>> ELSE <<t[Len(t)]>>

\* p.name for a Path p given by its parts
PartsName(p) == IF Len(p) = 0 THEN <<>> ELSE <<p[Len(p)]>>

RECURSIVE Concat(_)
Concat(ss) == IF Len(ss) = 0 THEN <<>> ELSE Head(ss) \o Concat(Tail(ss))

RECURSIVE SortNames(_)
SortNames(S) ==
    IF S = {} THEN <<>>
    ELSE LET m == CHOOSE x \in S : \A y \in S : NameOrd[x] <= NameOrd[y]
         IN  <<m>> \o SortNames(S \ {m})

\* s < t as strings
RECURSIVE Less(_, _)
Less(s, t) ==
    IF Len(t) = 0 THEN FALSE
    ELSE IF Len(s) = 0 THEN TRUE
    ELSE IF Head(s) = Head(t) THEN Less(Tail(s), Tail(t))
    ELSE NameOrd[Head(s)] < NameOrd[Head(t)]

RECURSIVE SortStrings(_)
SortStrings(S) ==
    IF S = {} THEN <<>>
    ELSE LET m == CHOOSE x \in S : \A y \in S \ {x} : Less(x, y)
         IN  <<m>> \o SortStrings(S \ {m})

RECURSIVE Sum(_)
Sum(ns) == IF Len(ns) = 0 THEN 0 ELSE Head(ns) + Sum(Tail(ns))

StartsWith(s, pre) == Len(pre) <= Len(s) /\ SubSeq(s, 1, Len(pre)) = pre

RECURSIVE Reverse(_)
Reverse(s) == IF Len(s) = 0 THEN <<>> ELSE Append(Reverse(Tail(s)), Head(s))

Max(a, b) == IF a >= b THEN a ELSE b

Min(a, b) == IF a <= b THEN a ELSE b

\* Python's s[start:end] on a list
PySlice(s, start, end) ==
    LET n == Len(s)
        lo == IF start < 0 THEN Max(start + n, 0) ELSE Min(start, n)
        hi == IF end < 0 THEN Max(end + n, 0) ELSE Min(end, n)
    IN  SubSeq(s, lo + 1, hi)

-----------------------------------------------------------------------------
(* The local file system under ROOT *)

\* os.scandir(dir): the names of the sub-directories of dir, in listing order
ListDir(tree, dir) ==
    SortNames({n \in Names : Append(dir, n) \in tree})

\* the directories os.walk(top) / glob("**") visit, top-down, top included
RECURSIVE WalkPaths(_, _)
WalkPaths(tree, top) ==
    LET ds == ListDir(tree, top)
    IN  <<top>> \o Concat([i \in 1..Len(ds) |-> WalkPaths(tree, Append(top, ds[i]))])

\* os.walk(top): one (dirpath, dirs) pair per visited directory
walk(tree, top) ==
    LET ps == WalkPaths(tree, top)
    IN  [i \in 1..Len(ps) |-> [dirpath |-> ps[i], dirs |-> ListDir(tree, ps[i])]]

\* read_etype(ROOT/d/.mtbatch)
read_etype(mk, d) == mk[d]

-----------------------------------------------------------------------------
(* Batch, LocalBatch, S3Batch *)

Batch_attrs == {"query", "etype", "elements", "root"}

S3Batch_attrs == Batch_attrs \cup {"ranking"}

attrs(typ) == IF typ = "S3Batch" THEN S3Batch_attrs ELSE Batch_attrs

\* LocalBatch.index_elements: root.glob("**/*") restricted to directories.
\* No directory of Names is called __RANKING, so lines 77-79 set no ranking.
LocalBatch_index_elements(tree, root) ==
    LET ps == WalkPaths(tree, root)
    IN  Concat([i \in 1..Len(ps) |->
            LET ds == ListDir(tree, ps[i])
            IN  [j \in 1..Len(ds) |-> Append(ps[i], ds[j])]])

\* LocalBatch.__init__: Batch.__init__ keeps a supplied `elements`, then
\* line 72 assigns index_elements() over it
LocalBatch_init(tree, query, etype, root, elements) ==
    LET base == [query |-> query, etype |-> etype, root |-> root,
                 elements |-> IF IsNone(elements)
                              THEN LocalBatch_index_elements(tree, root)
                              ELSE elements[1]]
    IN  [cls |-> "LocalBatch",
         dict |-> [base EXCEPT !.elements = LocalBatch_index_elements(tree, root)]]


\* the number of index_elements() calls the constructor of class typ makes
\* when it is handed `elements` (lines 45-48, 72)
IndexCalls(typ, elements) ==
    (IF IsNone(elements) THEN 1 ELSE 0) + (IF typ = "LocalBatch" THEN 1 ELSE 0)

-----------------------------------------------------------------------------
(* The object store: a bucket is the set of its keys *)

MTBATCH == ".mtbatch"

RANKING == "__RANKING"

\* Path(key).suffix in [".json"]
IsJson(key) == Len(key) > 0 /\ key[Len(key)] \in {"x.json", "rankings.json"}

\* the position of the first separator of s, 0 when there is none
FirstSep(s) ==
    IF \E i \in 1..Len(s) : s[i] = SEP
    THEN CHOOSE i \in 1..Len(s) : s[i] = SEP /\ \A j \in 1..(i - 1) : s[j] # SEP
    ELSE 0

\* list_objects_v2(Prefix=prefix, Delimiter="/")["CommonPrefixes"], in key order
CommonPrefixes(bucket, prefix) ==
    SortStrings({SubSeq(k, 1, Len(prefix) + FirstSep(SubSeq(k, Len(prefix) + 1, Len(k)))) :
                    k \in {x \in bucket : /\ StartsWith(x, prefix)
                                          /\ FirstSep(SubSeq(x, Len(prefix) + 1, Len(x))) > 0}})

\* the parsed content of the rankings.json under a batch: the batch's element
\* folders, last first, under the key "tank"
RankingsJson(bucket, query) ==
    [k \in {"tank"} |->
        Reverse(SelectSeq(CommonPrefixes(bucket, query), LAMBDA el : RANKING \notin {el[i] : i \in 1..Len(el)}))]

\* S3Batch.index_elements: the elements and the ranking it sets; ok is FALSE
\* when it raises (no CommonPrefixes in the response, no rankings.json)
S3Batch_index_elements(bucket, query) ==
    LET els == CommonPrefixes(bucket, query)
        ranked == \E i \in 1..Len(els) : RANKING \in {els[i][j] : j \in 1..Len(els[i])}
        prefix == IF StartsWith(<<RANKING>>, query) THEN <<RANKING>> ELSE query \o <<RANKING>>
        elpaths == {k \in bucket : StartsWith(k, prefix) /\ IsJson(k)}
        hasFile == \E k \in elpaths : k[Len(k)] = "rankings.json"
    IN  [ok |-> Len(els) > 0 /\ (ranked => hasFile),
         elements |-> els,
         ranking |-> IF ranked /\ hasFile THEN RankingsJson(bucket, query) ELSE <<>>]

\* S3Batch.__init__: `ranking` is set first, Batch.__init__ indexes the bucket
\* only when no `elements` is supplied
S3Batch_init(bucket, query, etype, root, ranking, elements) ==
    LET idx == S3Batch_index_elements(bucket, query)
    IN  [cls |-> "S3Batch",
         dict |-> [query |-> query, etype |-> etype, root |-> root,
                   ranking |-> IF IsNone(elements) /\ DOMAIN idx.ranking # {}
                               THEN idx.ranking ELSE ranking,
                   elements |-> IF IsNone(elements) THEN idx.elements ELSE elements[1]]]

\* re.match(r".*\/\.mtbatch$", key)
IsMarkerKey(k) == Len(k) >= 2 /\ k[Len(k)] = MTBATCH /\ k[Len(k) - 1] = SEP

\* S3.get_batches(bucket): the batches, or None when it raises
S3_get_batches(bucket) ==
    LET keys == SortStrings(bucket)
        valid_folders == [i \in 1..Len(SelectSeq(keys, IsMarkerKey)) |->
                             SelectSeq(SelectSeq(keys, IsMarkerKey)[i], LAMBDA t : t # MTBATCH)]
        idx == [i \in 1..Len(valid_folders) |-> S3Batch_index_elements(bucket, valid_folders[i])]
    IN  IF bucket = {} \/ \E i \in 1..Len(idx) : ~idx[i].ok THEN None
        ELSE Some([i \in 1..Len(valid_folders) |->
                 S3Batch_init(bucket, valid_folders[i], "image", "bucket", <<>>, None)])

-----------------------------------------------------------------------------
(* Discovery *)

\* Local.get_batches(ROOT)
Local_get_batches(tree, mk) ==
    LET w == walk(tree, <<>>)
        ds == Concat([i \in 1..Len(w) |-> w[i].dirs])
        hit == SelectSeq(ds, LAMBDA d : d \in DOMAIN mk)
    IN  [i \in 1..Len(hit) |->
            LocalBatch_init(tree, <<hit[i]>>, read_etype(mk, hit[i]), <<hit[i]>>, None)]

\* index(ROOT, STORAGE_TYPE) with STORAGE_TYPE = StorageType.Local
index(tree, mk) == [batches |-> Local_get_batches(tree, mk)]

-----------------------------------------------------------------------------
(* Snapshot store *)

Absent == [st |-> "absent", data |-> <<>>]

\* pickle.dump([(x.__class__.__name__, x.__dict__) for x in mp["batches"]])
dump(m) == [i \in 1..Len(m.batches) |->
               [typ |-> m.batches[i].cls, dct |-> m.batches[i].dict]]

\* the constructor call Batch(**args) of load_map
Construct(tree, typ, args) ==
    IF typ = "LocalBatch"
    THEN LocalBatch_init(tree, args.query, args.etype, args.root, Some(args.elements))
    ELSE S3Batch_init({}, args.query, args.etype, args.root, args.ranking, Some(args.elements))

\* load_map(): the exception it raises ("" for none), the map it returns and
\* the number of index_elements() calls it made
load_map(f, tree) ==
    IF f.st = "absent" THEN [exc |-> "FileNotFoundError", mp |-> [batches |-> <<>>], indexed |-> 0]
    ELSE IF f.st = "empty" THEN [exc |-> "EOFError", mp |-> [batches |-> <<>>], indexed |-> 0]
    ELSE IF f.st = "partial" THEN [exc |-> "UnpicklingError", mp |-> [batches |-> <<>>], indexed |-> 0]
    ELSE IF Len(f.data) = 0 THEN [exc |-> "", mp |-> [batches |-> <<>>], indexed |-> 0]
    ELSE LET raw == f.data
             args == [i \in 1..Len(raw) |->
                         [k \in attrs(raw[i].typ) |-> raw[i].dct[k]]]
         IN  [exc |-> "",
              mp |-> [batches |-> [i \in 1..Len(raw) |->
                                      Construct(tree, raw[i].typ, args[i])]],
              indexed |-> Sum([i \in 1..Len(raw) |->
                                  IndexCalls(raw[i].typ, Some(args[i].elements))])]

-----------------------------------------------------------------------------
(* Element operations *)

Null == [kind |-> "null"]

\* the parsed *.json files found under a directory or key prefix
MediaAt(loc) == [f \in {"x.json"} |-> loc]

\* LocalBatch.unpack_element(pth)
LocalBatch_unpack_element(pth) ==
    [kind |-> "element", id |-> PartsName(pth), media |-> MediaAt(pth)]

\* get_element taking the first of the matching elements
LocalBatch_get_element_first(b, el_id) ==
    LET matching == SelectSeq(b.dict.elements, LAMBDA el : PartsName(el) = el_id)
    IN  IF Len(matching) = 0 THEN Null
        ELSE LocalBatch_unpack_element(matching[1])

\* LocalBatch.get_element(el_id)
LocalBatch_get_element(b, el_id) ==
    LET matching == SelectSeq(b.dict.elements, LAMBDA el : PartsName(el) = el_id)
    IN  IF Len(matching) # 1 THEN Null
        ELSE LocalBatch_unpack_element(matching[1])

\* LocalBatch.get_elements(page, limit)
LocalBatch_get_elements(b, page, limit) ==
    [i \in 1..Len(b.dict.elements) |-> LocalBatch_unpack_element(b.dict.elements[i])]

\* S3Batch.unpack_element(el)
S3Batch_unpack_element(b, el) ==
    LET prefix == IF StartsWith(el, b.dict.query) THEN el ELSE b.dict.query \o el
    IN  [kind |-> "element", id |-> PathName(el), media |-> MediaAt(prefix)]

\* S3Batch.get_element(el_id)
S3Batch_get_element(b, el_id) ==
    LET matching == SelectSeq(b.dict.elements, LAMBDA el : PathName(el) = el_id)
    IN  IF Len(matching) # 1 THEN Null
        ELSE S3Batch_unpack_element(b, matching[1])

\* get_elements with pages of `limit` elements
S3Batch_get_elements_fullpage(b, page, limit, rank_by) ==
    LET start_idx == page * limit
        end_idx == start_idx + limit
        els_to_give ==
            IF ~IsNone(rank_by) /\ rank_by[1] \in DOMAIN b.dict.ranking
            THEN PySlice(b.dict.ranking[rank_by[1]], start_idx, end_idx)
            ELSE PySlice(b.dict.elements, start_idx, end_idx)
    IN  [i \in 1..Len(els_to_give) |-> S3Batch_unpack_element(b, els_to_give[i])]

\* S3Batch.get_elements(page, limit, rank_by); rank_by is optional
S3Batch_get_elements(b, page, limit, rank_by) ==
    LET start_idx == page * limit
        end_idx == start_idx + (limit - 1)
        els_to_give ==
            IF ~IsNone(rank_by) /\ rank_by[1] \in DOMAIN b.dict.ranking
            THEN PySlice(b.dict.ranking[rank_by[1]], start_idx, end_idx)
            ELSE PySlice(b.dict.elements, start_idx, end_idx)
    IN  [i \in 1..Len(els_to_give) |-> S3Batch_unpack_element(b, els_to_give[i])]

\* b.get_element(el_id), dispatched on the class of b
get_element(b, el_id) ==
    IF b.cls = "LocalBatch" THEN LocalBatch_get_element(b, el_id)
    ELSE S3Batch_get_element(b, el_id)

-----------------------------------------------------------------------------
(* Query router *)

\* batch_from_query comparing the queries as they are
batch_from_query_nostrip(bs, query) ==
    IF IsNone(query) \/ Len(query[1]) = 0 THEN None
    ELSE LET matching == SelectSeq(bs, LAMBDA b : b.dict.query = query[1])
         IN  IF Len(matching) # 1 THEN None ELSE Some(matching[1])

\* batch_from_query(batches, query); query is optional, the result is the
\* matching batch or None
batch_from_query(bs, query) ==
    IF IsNone(query) \/ Len(query[1]) = 0 THEN None
    ELSE LET matching == SelectSeq(bs, LAMBDA b : strip(b.dict.query) = strip(query[1]))
         IN  IF Len(matching) # 1 THEN None ELSE Some(matching[1])

-----------------------------------------------------------------------------
(* Routes *)

\* request.args / request.json of the requests considered
QArgs == {None} \cup {Some(s) : s \in {<<>>, <<"a">>, <<SEP, "a", SEP>>, <<"b">>}}

ElArgs == {<<"a">>, <<"b">>}

\* page, limit and rank_by: all absent, or all given
PagingArgs == {[page |-> None, limit |-> None, rank_by |-> None],
               [page |-> Some(1), limit |-> Some(2), rank_by |-> Some("tank")]}

PostElements == {<<>>, <<<<"a">>, <<"b">>>>}

NoArgs == [q |-> None, el |-> None, page |-> None, limit |-> None,
           rank_by |-> None, elements |-> <<>>]

Raise(l, e) == [exc |-> e, body |-> Null, mp |-> l.mp, indexed |-> l.indexed]

Json(l, v) == [exc |-> "", body |-> v, mp |-> l.mp, indexed |-> l.indexed]

\* elementmap(): x.serialize() of every loaded batch
serialize(b) ==
    [query |-> b.dict.query,
     elements |-> [i \in 1..Len(b.dict.elements) |->
                      IF b.cls = "LocalBatch" THEN PartsName(b.dict.elements[i])
                      ELSE PathName(b.dict.elements[i])],
     etype |-> b.dict.etype]

elementmap(f, tree) ==
    LET l == load_map(f, tree)
    IN  IF l.exc # "" THEN Raise(l, l.exc)
        ELSE Json(l, [kind |-> "list",
                      items |-> [i \in 1..Len(l.mp.batches) |-> serialize(l.mp.batches[i])]])

\* batch(), GET branch
batch_GET(f, tree, r) ==
    LET l == load_map(f, tree)
        b == batch_from_query(l.mp.batches, r.q)
        arg_limit == IF IsNone(r.limit) THEN 10 ELSE r.limit[1]
        arg_page == IF IsNone(r.page) THEN 0 ELSE r.page[1]
        rank_by == IF IsNone(r.rank_by) THEN Some("tank") ELSE r.rank_by
    IN  IF l.exc # "" THEN Raise(l, l.exc)
        ELSE IF ~IsNone(r.el)
        THEN (IF IsNone(b) THEN Raise(l, "AttributeError")
              ELSE Json(l, get_element(b[1], r.el[1])))
        ELSE (IF IsNone(b) THEN Raise(l, "AttributeError")
              ELSE IF b[1].cls = "LocalBatch"
              THEN Raise(l, "TypeError")  \* get_elements() got an unexpected keyword 'rank_by'
              ELSE Json(l, [kind |-> "list",
                            items |-> S3Batch_get_elements(b[1], arg_page, arg_limit, rank_by)]))

\* batch(), POST branch
batch_POST(f, tree, r) ==
    LET l == load_map(f, tree)
        b == batch_from_query(l.mp.batches, r.q)
    IN  IF l.exc # "" THEN Raise(l, l.exc)
        ELSE IF Len(r.elements) = 0 THEN Json(l, [kind |-> "list", items |-> <<>>])
        ELSE IF IsNone(b) THEN Raise(l, "AttributeError")
        ELSE Json(l, [kind |-> "list",
                      items |-> [i \in 1..Len(r.elements) |-> get_element(b[1], r.elements[i])]])

-----------------------------------------------------------------------------
(* The server: start-up, snapshot writes, requests, and the storage changing
   underneath *)

\* a request is handled to its end before anything else happens
Idle == resp = None

MkDir ==
    /\ Idle
    /\ Cardinality(fs) < MaxDirs
    /\ \E p \in fs \cup {<<>>}, n \in Names :
          /\ Append(p, n) \notin fs
          /\ fs' = fs \cup {Append(p, n)}
    /\ UNCHANGED <<markers, file, pc, mp, serving, req, resp, batches, call>>

RmDir ==
    /\ Idle
    /\ \E p \in fs :
          /\ \A n \in Names : Append(p, n) \notin fs
          /\ fs' = fs \ {p}
          /\ markers' = IF Len(p) = 1
                        THEN [d \in DOMAIN markers \ {p[1]} |-> markers[d]]
                        ELSE markers
    /\ UNCHANGED <<file, pc, mp, serving, req, resp, batches, call>>

WriteMarker ==
    /\ Idle
    /\ \E d \in Names, e \in ETypes :
          /\ <<d>> \in fs
          /\ d \notin DOMAIN markers
          /\ markers' = [x \in DOMAIN markers \cup {d} |-> IF x = d THEN e ELSE markers[x]]
    /\ UNCHANGED <<fs, file, pc, mp, serving, req, resp, batches, call>>

\* __main__ saving whatever discovery found
Main_always ==
    /\ Idle
    /\ pc = "start"
    /\ mp' = index(fs, markers)
    /\ file' = [st |-> "empty", data |-> <<>>]
    /\ pc' = "opened"
    /\ UNCHANGED <<fs, markers, serving, req, resp, batches, call>>

\* __main__ up to save_map's open(EM_STORE, "wb"), or up to app.run when
\* nothing is to be saved
Main ==
    /\ Idle
    /\ pc = "start"
    /\ mp' = index(fs, markers)
    /\ IF Len(mp'.batches) > 0
       THEN /\ file' = [st |-> "empty", data |-> <<>>]
            /\ pc' = "opened"
            /\ UNCHANGED serving
       ELSE /\ pc' = "serving"
            /\ serving' = TRUE
            /\ UNCHANGED file
    /\ UNCHANGED <<fs, markers, req, resp, batches, call>>

\* pickle.dump: the buffered writer flushes a first part of the bytes
save_flush ==
    /\ Idle
    /\ pc = "opened"
    /\ file' = [st |-> "partial", data |-> <<>>]
    /\ pc' = "flushed"
    /\ UNCHANGED <<fs, markers, mp, serving, req, resp, batches, call>>

\* the end of save_map's `with` block: everything is written; then app.run
save_close ==
    /\ Idle
    /\ pc \in {"opened", "flushed"}
    /\ file' = [st |-> "complete", data |-> dump(mp)]
    /\ pc' = "serving"
    /\ serving' = TRUE
    /\ UNCHANGED <<fs, markers, mp, req, resp, batches, call>>

\* another server process is started while the earlier one keeps serving
Restart ==
    /\ Idle
    /\ pc = "serving"
    /\ pc' = "start"
    /\ mp' = [batches |-> <<>>]
    /\ UNCHANGED <<fs, markers, file, serving, req, resp, batches, call>>

GetElementmap ==
    /\ Idle /\ serving
    /\ req' = Some([route |-> "/elementmap", method |-> "GET", args |-> NoArgs])
    /\ resp' = Some(elementmap(file, fs))
    /\ UNCHANGED <<fs, markers, file, pc, mp, serving, batches, call>>

GetBatchElement ==
    /\ Idle /\ serving
    /\ \E q \in QArgs, el \in ElArgs :
          LET r == [NoArgs EXCEPT !.q = q, !.el = Some(el)]
          IN  /\ req' = Some([route |-> "/batch", method |-> "GET", args |-> r])
              /\ resp' = Some(batch_GET(file, fs, r))
    /\ UNCHANGED <<fs, markers, file, pc, mp, serving, batches, call>>

GetBatch ==
    /\ Idle /\ serving
    /\ \E q \in QArgs, pa \in PagingArgs :
          LET r == [NoArgs EXCEPT !.q = q, !.page = pa.page, !.limit = pa.limit,
                                  !.rank_by = pa.rank_by]
          IN  /\ req' = Some([route |-> "/batch", method |-> "GET", args |-> r])
              /\ resp' = Some(batch_GET(file, fs, r))
    /\ UNCHANGED <<fs, markers, file, pc, mp, serving, batches, call>>

PostBatch ==
    /\ Idle /\ serving
    /\ \E q \in QArgs, els \in PostElements :
          LET r == [NoArgs EXCEPT !.q = q, !.elements = els]
          IN  /\ req' = Some([route |-> "/batch", method |-> "POST", args |-> r])
              /\ resp' = Some(batch_POST(file, fs, r))
    /\ UNCHANGED <<fs, markers, file, pc, mp, serving, batches, call>>

\* the response is returned to the client
Reply ==
    /\ resp # None
    /\ req' = None
    /\ resp' = None
    /\ UNCHANGED <<fs, markers, file, pc, mp, serving, batches, call>>

NoCall == [fn |-> "none"]

Init ==
    /\ fs = {}
    /\ markers = <<>>
    /\ file = Absent
    /\ pc = "start"
    /\ mp = [batches |-> <<>>]
    /\ serving = FALSE
    /\ req = None
    /\ resp = None
    /\ batches = <<>>
    /\ call = NoCall

Next ==
    \/ MkDir
    \/ RmDir
    \/ WriteMarker
    \/ Main
    \/ save_flush
    \/ save_close
    \/ Restart
    \/ GetElementmap
    \/ GetBatchElement
    \/ GetBatch
    \/ PostBatch
    \/ Reply

Spec == Init /\ [][Next]_vars

-----------------------------------------------------------------------------
(* The router and the element operations applied to the batch lists that
   discovery can produce: Local trees of at most MaxDirs directories, and
   buckets (the STORAGE_TYPE = S3 configuration of lines 28-29) made of the
   keys of KeyUniverse *)

RECURSIVE Trees(_)
Trees(n) ==
    IF n = 0 THEN {{}}
    ELSE LET T == Trees(n - 1)
         IN  T \cup UNION {{t \cup {Append(p, nm)} : p \in t \cup {<<>>}, nm \in Names} : t \in T}

MarkerMaps(tree) ==
    UNION {[S -> ETypes] : S \in SUBSET {n \in Names : <<n>> \in tree}}

LocalLists ==
    UNION {{Local_get_batches(t, mk) : mk \in MarkerMaps(t)} : t \in Trees(MaxDirs)}

KeyUniverse ==
    {<<SEP, MTBATCH>>,
     <<SEP, "a", SEP, "x.json">>,
     <<SEP, "a", SEP, MTBATCH>>,
     <<SEP, "a", SEP, "a", SEP, "x.json">>,
     <<"a", SEP, MTBATCH>>,
     <<"a", SEP, RANKING, SEP, "rankings.json">>}
    \cup {<<"a", SEP, n, SEP, "x.json">> : n \in ElNames}

S3Lists ==
    {S3_get_batches(bk)[1] : bk \in {x \in SUBSET KeyUniverse : ~IsNone(S3_get_batches(x))}}

Strings(chars, n) == UNION {[1..k -> chars] : k \in 0..n}

QueryInputs == {None} \cup {Some(q) : q \in Strings({SEP, "a", "b"}, MaxQueryLen)}

ElIds == {<<>>} \cup {<<n>> : n \in ElNames \cup {RANKING}}

Pages == (0 - 1)..MaxPage

Limits == (0 - 1)..MaxLimit

RankBys == {None, Some("tank"), Some("other")}

apply_batch_from_query ==
    /\ \E q \in QueryInputs :
          call' = [fn |-> "batch_from_query", q |-> q,
                   result |-> batch_from_query(batches, q)]
    /\ UNCHANGED <<fs, markers, file, pc, mp, serving, req, resp, batches>>

apply_get_element ==
    /\ \E i \in 1..Len(batches), el_id \in ElIds :
          call' = [fn |-> "get_element", b |-> i, el_id |-> el_id,
                   result |-> get_element(batches[i], el_id)]
    /\ UNCHANGED <<fs, markers, file, pc, mp, serving, req, resp, batches>>

apply_get_elements ==
    /\ \E i \in 1..Len(batches), page \in Pages, limit \in Limits, rank_by \in RankBys :
          /\ batches[i].cls = "S3Batch"
          /\ call' = [fn |-> "get_elements", b |-> i, page |-> page, limit |-> limit,
                      rank_by |-> rank_by,
                      result |-> S3Batch_get_elements(batches[i], page, limit, rank_by)]
    /\ UNCHANGED <<fs, markers, file, pc, mp, serving, req, resp, batches>>

InitFn ==
    /\ fs = {}
    /\ markers = <<>>
    /\ file = Absent
    /\ pc = "start"
    /\ mp = [batches |-> <<>>]
    /\ serving = FALSE
    /\ req = None
    /\ resp = None
    /\ batches \in LocalLists \cup S3Lists
    /\ call = NoCall

NextFn ==
    \/ apply_batch_from_query
    \/ apply_get_element
    \/ apply_get_elements

SpecFn == InitFn /\ [][NextFn]_vars

-----------------------------------------------------------------------------
(* Properties *)

Responded == resp # None

\* the request in `req` was answered from a snapshot that load_map could read
Loaded == Responded /\ resp[1].exc \notin {"FileNotFoundError", "EOFError", "UnpicklingError"}

\* the positions of the batches of bs whose stripped query is the stripped q
Matches(bs, q) == {i \in 1..Len(bs) : strip(bs[i].dict.query) = strip(q)}

\* C1: load_map() after save_map(batches) yields as many batches, in the same
\* order, each of the saved class and equal to the saved batch on every
\* attribute of the class's allowlist.
C1_RoundTrip ==
    Loaded /\ file.st = "complete" =>
        LET loaded == resp[1].mp.batches
            saved == file.data
        IN  /\ Len(loaded) = Len(saved)
            /\ \A i \in 1..Len(saved) :
                  /\ loaded[i].cls = saved[i].typ
                  /\ \A k \in attrs(saved[i].typ) : loaded[i].dict[k] = saved[i].dct[k]

\* C2: a load_map() never calls index_elements, and the `elements` of every
\* batch it builds is the persisted sequence, whatever the storage holds.
C2_NoRediscovery ==
    Loaded /\ file.st = "complete" =>
        /\ resp[1].indexed = 0
        /\ \A i \in 1..Len(file.data) :
              resp[1].mp.batches[i].dict.elements = file.data[i].dct.elements

\* C4: a /batch request whose query matches no batch, or more than one, of the
\* loaded index completes with a null or empty result and raises nothing.
C4_NotFoundIsNull ==
    /\ Loaded
    /\ req[1].route = "/batch"
    /\ (IsNone(req[1].args.q)
        \/ Cardinality(Matches(resp[1].mp.batches, req[1].args.q[1])) # 1)
    => /\ resp[1].exc = ""
       /\ resp[1].body \in {Null, [kind |-> "list", items |-> <<>>]}

\* C5: no load_map() ever reads an empty or partly written snapshot file: it
\* sees the complete previous snapshot or the complete new one.
C5_AtomicSnapshot ==
    Responded /\ file.st # "absent" =>
        /\ file.st = "complete"
        /\ resp[1].exc \notin {"EOFError", "UnpicklingError"}

\* C7: after Local discovery no two batches of the index, and of the snapshot
\* saved from it, have the same query.
C7_UniqueQueries ==
    /\ \A i, j \in 1..Len(mp.batches) :
          i # j => mp.batches[i].dict.query # mp.batches[j].dict.query
    /\ \A i, j \in 1..Len(file.data) :
          i # j => file.data[i].dct.query # file.data[j].dct.query

\* C8: a GET /batch without `el` whose query resolves to a Local batch returns
\* the unpacked elements of the batch's whole `elements`, for every page, limit
\* and rank_by, and raises nothing.
C8_LocalGetElements ==
    /\ Loaded
    /\ req[1].route = "/batch" /\ req[1].method = "GET"
    /\ IsNone(req[1].args.el)
    /\ ~IsNone(req[1].args.q)
    /\ Cardinality(Matches(resp[1].mp.batches, req[1].args.q[1])) = 1
    => LET b == resp[1].mp.batches[CHOOSE i \in Matches(resp[1].mp.batches, req[1].args.q[1]) : TRUE]
       IN  b.cls = "LocalBatch" =>
              /\ resp[1].exc = ""
              /\ resp[1].body =
                    [kind |-> "list",
                     items |-> [i \in 1..Len(b.dict.elements) |->
                                   LocalBatch_unpack_element(b.dict.elements[i])]]

\* C10: when start-up discovery finds no batch, the snapshot file is neither
\* created nor changed and the process goes on to serve; and a load_map() that
\* finds no snapshot file raises instead of returning an empty batch set.
C10_EmptyIndex ==
    [][/\ (pc = "start" /\ pc' # "start" /\ Len(index(fs, markers).batches) = 0)
            => (file' = file /\ pc' = "serving")
       /\ (resp = None /\ resp' # None /\ file.st = "absent")
            => (resp'[1].exc = "FileNotFoundError" /\ resp'[1].body = Null)]_vars

C10_Witness ==
    /\ pc = "serving"
    /\ Len(mp.batches) = 0
    /\ file.st = "absent"
    /\ Responded
    /\ resp[1].exc = "FileNotFoundError"

\* C3 as amended: for a non-empty query, batch_from_query returns the one batch
\* whose query equals it after both are stripped of leading and trailing "/",
\* and None when no batch or several batches match; None and "" give None.
C3_Resolve ==
    call.fn = "batch_from_query" =>
        IF IsNone(call.q) \/ call.q = Some(<<>>) THEN call.result = None
        ELSE LET M == Matches(batches, call.q[1])
             IN  IF Cardinality(M) = 1
                 THEN call.result = Some(batches[CHOOSE i \in M : TRUE])
                 ELSE call.result = None

\* C3 as stated: for every query string, the one batch whose stripped query
\* equals the stripped input is returned, None when there is none or several.
C3_Original ==
    call.fn = "batch_from_query" /\ ~IsNone(call.q) =>
        LET M == Matches(batches, call.q[1])
        IN  IF Cardinality(M) = 1
            THEN call.result = Some(batches[CHOOSE i \in M : TRUE])
            ELSE call.result = None

C3_Witness ==
    /\ call.fn = "batch_from_query"
    /\ call.result # None
    /\ call.q[1] # call.result[1].dict.query
    /\ call.q[1] # strip(call.q[1])

\* the list S3Batch.get_elements pages over
Selected(b, rank_by) ==
    IF ~IsNone(rank_by) /\ rank_by[1] \in DOMAIN b.dict.ranking
    THEN b.dict.ranking[rank_by[1]]
    ELSE b.dict.elements

\* the unpacked elements of sel at the 0-based indices lo up to, not
\* including, hi
Window(b, sel, lo, hi) ==
    LET from == Max(lo, 0)
        to == Min(hi, Len(sel))
    IN  [i \in 1..Max(to - from, 0) |-> S3Batch_unpack_element(b, sel[from + i])]

\* C6 as amended: for page >= 0 and limit >= 1, get_elements returns, in order,
\* the unpacked elements at the indices page*limit up to, not including,
\* page*limit + limit - 1 of ranking[rank_by] when rank_by is given and is a
\* key of ranking, and of `elements` otherwise.
C6_Page ==
    call.fn = "get_elements" /\ call.page >= 0 /\ call.limit >= 1 =>
        call.result = Window(batches[call.b], Selected(batches[call.b], call.rank_by),
                             call.page * call.limit,
                             call.page * call.limit + call.limit - 1)

\* C6 as stated: the same for every page and limit.
C6_Original ==
    call.fn = "get_elements" =>
        call.result = Window(batches[call.b], Selected(batches[call.b], call.rank_by),
                             call.page * call.limit,
                             call.page * call.limit + call.limit - 1)

C6_Witness ==
    /\ call.fn = "get_elements"
    /\ call.page = 1 /\ call.limit = 2
    /\ call.rank_by = Some("tank")
    /\ "tank" \in DOMAIN batches[call.b].dict.ranking
    /\ Len(call.result) = 1
    /\ call.result[1].id = <<"a">>

\* the basename of an element identifier of batch b
Basename(b, el) == IF b.cls = "LocalBatch" THEN PartsName(el) ELSE PathName(el)

\* C9: get_element(el_id) returns the unpacked element when exactly one
\* identifier of `elements` has the basename el_id, and None when none or
\* several have it, for both classes.
C9_ExactlyOne ==
    call.fn = "get_element" =>
        LET b == batches[call.b]
            M == {j \in 1..Len(b.dict.elements) : Basename(b, b.dict.elements[j]) = call.el_id}
        IN  IF Cardinality(M) = 1
            THEN LET el == b.dict.elements[CHOOSE j \in M : TRUE]
                 IN  /\ call.result.kind = "element"
                     /\ call.result.id = call.el_id
                     /\ call.result = IF b.cls = "LocalBatch"
                                      THEN LocalBatch_unpack_element(el)
                                      ELSE S3Batch_unpack_element(b, el)
            ELSE call.result = Null

C9_Witness ==
    /\ call.fn = "get_element"
    /\ call.result = Null
    /\ Cardinality({j \in 1..Len(batches[call.b].dict.elements) :
                       Basename(batches[call.b], batches[call.b].dict.elements[j]) = call.el_id}) = 2

====
